---- MODULE Spec2Model ----
(***************************************************************************)
(* The life-lessons server: four revisions of one Express application      *)
(* (src/index.js, src/unnamed/part_000, part_001, part_002) in front of a  *)
(* MongoDB database.  The state is the "lessons" and "contributors"        *)
(* collections; every route handler is one action.  A handler that makes   *)
(* one store call is atomic because the store applies updateOne,           *)
(* insertOne, deleteOne and find atomically per document.                  *)
(***************************************************************************)
EXTENDS Integers, Sequences, FiniteSets, TLC

(* ------------------------------------------------------------------ *)
(* Values                                                             *)
(* ------------------------------------------------------------------ *)

\* JavaScript undefined (a field that is not there) and BSON/JSON null.
Absent == "undefined"
Null == "null"
\* A numeric field that is not there, a timestamp that is not there.
NoNum == 0 - 1
NoTime == 0 - 1
\* An id string that new ObjectId() rejects; a value that is no ObjectId.
BadId == 0

\* The four revisions of the server.
Revs == {"part_000", "part_001", "index.js", "part_002"}

(* Bounds of the model. *)
MaxLessons == 2
MaxQueryLessons == 6
MaxListLessons == 3
MaxIncs == 2
MaxSaves == 2
MaxComments == 2
MaxReplies == 1
MaxLikes == 1
MaxPuts == 1
MaxClock == 1
MaxNestedReplies == 2
MaxNestedLikes == 2
MaxContribLessons == 3
PayloadCount == 3

\* .limit(5) of GET /lessons-worth.
TopLimit == 5

\* x || d of JavaScript on a string-valued field.
OrDefault(x, d) == IF x \in {Absent, Null, ""} THEN d ELSE x

CounterFields == {"likes", "views", "saves", "shares"}

(* ------------------------------------------------------------------ *)
(* Request payloads of POST /lessons                                  *)
(* ------------------------------------------------------------------ *)

\* A comment carried by a payload: JSON cannot carry an ObjectId.
CarriedComment ==
    [id |-> BadId, user |-> "mallory", text |-> "spam", likes |-> PayloadCount,
     replies |-> <<>>, createdAt |-> NoTime]

PlainPayload ==
    [title |-> "t1", content |-> "c1", image |-> "i1",
     author |-> "Ann", authorAvatar |-> "ann.png",
     likes |-> NoNum, views |-> NoNum, saves |-> NoNum, shares |-> NoNum,
     hasComments |-> FALSE, comments |-> <<>>]

BarePayload ==
    [title |-> "t2", content |-> Absent, image |-> Absent,
     author |-> Absent, authorAvatar |-> Absent,
     likes |-> NoNum, views |-> NoNum, saves |-> NoNum, shares |-> NoNum,
     hasComments |-> FALSE, comments |-> <<>>]

LoadedPayload ==
    [title |-> "t3", content |-> "c3", image |-> Absent,
     author |-> "Ann", authorAvatar |-> Absent,
     likes |-> PayloadCount, views |-> PayloadCount, saves |-> PayloadCount,
     shares |-> PayloadCount,
     hasComments |-> TRUE, comments |-> <<CarriedComment>>]

Payloads == {PlainPayload, BarePayload, LoadedPayload}

\* A payload that carries counters below zero.
NegativePayload ==
    [title |-> "t4", content |-> "c4", image |-> "i4",
     author |-> "Bob", authorAvatar |-> "bob.png",
     likes |-> 0 - PayloadCount, views |-> NoNum, saves |-> NoNum,
     shares |-> 0 - PayloadCount,
     hasComments |-> FALSE, comments |-> <<>>]

(* ------------------------------------------------------------------ *)
(* State                                                              *)
(* ------------------------------------------------------------------ *)

VARIABLES
    rev,            \* the revision that is deployed
    lessons,        \* lessonCollection: ObjectId -> document
    contributors,   \* contributorsCollection, in insertion order
    nextOid,        \* the ObjectId the next new ObjectId() returns
    now,            \* the clock new Date() reads
    load,           \* the workload: how many requests of each kind the
                    \* clients send at most, and the payloads they post
    used,           \* how many requests of each kind have run
    tally,          \* per lesson: its counters when inserted, and the
                    \* increment requests answered since
    gone,           \* the ids of the lessons DELETE has removed
    asked,          \* per comment made by a request: the replies and the
                    \* likes that requests answered 200 have sent to it
    made,           \* per author as sent: the lessons created with it
    prev,           \* lessonCollection before the last request
    noop,           \* whether the last request left the store as it was
    last            \* the last request and its response

vars == <<rev, lessons, contributors, nextOid, now, load, used, tally, gone,
          asked, made, prev, noop, last>>

NoRequest == [op |-> "none", id |-> BadId, status |-> 0]

\* The ids of the comments a collection holds.
CommentIds(coll) ==
    UNION {{coll[i].comments[k].id : k \in 1..Len(coll[i].comments)}
           : i \in DOMAIN coll}

\* A request names a comment that a lesson of the collection holds.
Targets(coll, id, cid) ==
    /\ id \in DOMAIN coll
    /\ \E k \in 1..Len(coll[id].comments) : coll[id].comments[k].id = cid

\* A comment no reply and no like has been sent to.
NoneAsked == [replies |-> 0, likes |-> 0]

Kinds == {"lessons", "incs", "comments", "replies", "likes", "puts", "ticks"}

\* The state after run() has registered the routes, under workload w.
InitWith(w) ==
    /\ rev \in w.revs
    /\ lessons = <<>>
    /\ contributors = <<>>
    /\ nextOid = 1
    /\ now = 0
    /\ load = w
    /\ used = [k \in Kinds |-> 0]
    /\ tally = <<>>
    /\ gone = {}
    /\ asked = <<>>
    /\ made = <<>>
    /\ prev = <<>>
    /\ noop = FALSE
    /\ last = NoRequest

\* A request that changes nothing is answered and explored no further: the
\* requests that can follow it are those that can follow the state it found,
\* and they reach the same states from there.
Awake == ~noop
Noted ==
    noop' = (<<lessons', contributors', nextOid', used'>>
               = <<lessons, contributors, nextOid, used>>)

\* new ObjectId(id): the string is the hex form of an ObjectId, or it throws.
ParsesAsObjectId(id) == id # BadId

\* The id string parses and findOne({_id}) matches a document of coll.
ParsesAsObjectIdIn(id, coll) == ParsesAsObjectId(id) /\ id \in DOMAIN coll

\* The id strings a request may carry: malformed, every ObjectId handed out
\* so far, and one that has not been handed out.
IdStrings == {BadId} \cup (1..nextOid)

\* The comment id strings a request may carry: malformed, the id of every
\* stored comment, and one that has not been handed out.
CommentIdStrings ==
    {BadId, nextOid} \cup
    UNION {{lessons[i].comments[k].id : k \in 1..Len(lessons[i].comments)}
           : i \in DOMAIN lessons}

(* ------------------------------------------------------------------ *)
(* POST /lessons                                                      *)
(* ------------------------------------------------------------------ *)

\* The document insertOne stores.
NewLesson(r, p, t) ==
    CASE r \in {"part_000", "part_001"} ->
            [title |-> p.title, content |-> p.content, image |-> p.image,
             author |-> p.author, authorAvatar |-> p.authorAvatar,
             likes |-> p.likes, views |-> p.views, saves |-> p.saves,
             shares |-> p.shares,
             hasComments |-> p.hasComments, comments |-> p.comments,
             createdAt |-> NoTime, updatedAt |-> NoTime]
      [] r = "index.js" ->
            [title |-> p.title, content |-> p.content, image |-> p.image,
             author |-> p.author, authorAvatar |-> p.authorAvatar,
             likes |-> 0, views |-> 0, saves |-> 0,
             shares |-> p.shares,
             hasComments |-> TRUE, comments |-> <<>>,
             createdAt |-> t, updatedAt |-> NoTime]
      [] r = "part_002" ->
            [title |-> p.title, content |-> p.content, image |-> p.image,
             author |-> OrDefault(p.author, "Anonymous"),
             authorAvatar |-> OrDefault(p.authorAvatar, "/images/default.jpg"),
             likes |-> 0, views |-> 0, saves |-> 0,
             shares |-> 0,
             hasComments |-> TRUE, comments |-> <<>>,
             createdAt |-> t, updatedAt |-> NoTime]

\* The four counters of a document; no increment request answered yet.
Counters(doc) == [f \in CounterFields |-> doc[f]]
NoneDone == [f \in CounterFields |-> 0]

\* insertOne: the driver gives the document the next ObjectId.
InsertOne(coll, oid, doc) == (oid :> doc) @@ coll

\* A slip: insertOne where the upsert was meant.
UpsertContributorInserts(cs, name, avatar) ==
    Append(cs, [name |-> name, avatar |-> avatar, lessons |-> 1])

\* updateOne({name}, {$setOnInsert: {name, avatar, createdAt}, $inc: {lessons: 1}},
\* {upsert: true}) on the contributors collection.
UpsertContributor(cs, name, avatar) ==
    LET hits == {i \in 1..Len(cs) : cs[i].name = name} IN
    IF hits = {}
    THEN Append(cs, [name |-> name, avatar |-> avatar, lessons |-> 1])
    ELSE LET i == CHOOSE j \in hits : \A k \in hits : j <= k
         IN  [cs EXCEPT ![i].lessons = @ + 1]

CreateLesson ==
    /\ Awake
    /\ used.lessons < load.lessons
    /\ \E p \in load.payloads :
         LET doc == NewLesson(rev, p, now) IN
         /\ lessons' = InsertOne(lessons, nextOid, doc)
         /\ contributors' =
              IF rev = "part_002" /\ doc.author \notin {Absent, Null, ""}
              THEN UpsertContributor(contributors, doc.author, doc.authorAvatar)
              ELSE contributors
         /\ last' = [op |-> "createLesson", id |-> nextOid, status |-> 200,
                     payload |-> p]
         /\ tally' = (nextOid :> [base |-> Counters(doc), done |-> NoneDone])
                        @@ tally
    /\ nextOid' = nextOid + 1
    /\ used' = [used EXCEPT !.lessons = @ + 1]
    /\ prev' = lessons
    /\ made' = (last'.payload.author :>
                   (IF last'.payload.author \in DOMAIN made
                    THEN made[last'.payload.author] + 1 ELSE 1)) @@ made
    /\ UNCHANGED <<rev, now, load, gone, asked>>
    /\ Noted

(* ------------------------------------------------------------------ *)
(* Routes of each revision, and the auth guard                        *)
(* ------------------------------------------------------------------ *)

\* The routes a revision registers.
HasRoute(r, route) ==
    CASE route \in {"createLesson", "getLessons", "getLesson",
                    "addComment", "addReply", "likeComment"} -> TRUE
      [] route \in {"view", "like", "save", "share", "lessonsWorth"} ->
            r \in {"index.js", "part_002"}
      [] route \in {"updateLesson", "deleteLesson"} -> r = "part_002"
      [] OTHER -> FALSE

\* The routes a revision registers behind verifyJWT.
Guarded(r, route) ==
    \/ r = "part_001" /\ route \in {"addComment", "addReply", "likeComment"}
    \/ r = "index.js" /\ route = "addReply"

\* An authorization header, split at " "; <<>> is no header at all.
Headers == {<<>>, <<"tokA">>, <<"Bearer", "tokA">>, <<"Bearer", "tokB">>,
            <<"Bearer", "forged">>}

\* admin.auth().verifyIdToken(token): the decoded email, or it throws.
VerifyIdToken(token) ==
    CASE token = "tokA" -> [ok |-> TRUE, email |-> "a@x.io"]
      [] token = "tokB" -> [ok |-> TRUE, email |-> "b@x.io"]
      [] OTHER -> [ok |-> FALSE, email |-> Absent]

\* A slip: next() is called although no token came.
VerifyJWTLax(header) ==
    LET token == IF Len(header) >= 2 THEN header[2] ELSE Absent IN
    IF token \in {Absent, ""}
    THEN [ok |-> TRUE, email |-> Absent]
    ELSE VerifyIdToken(token)

\* verifyJWT: whether next() is called, and req.tokenEmail.
VerifyJWT(header) ==
    LET token == IF Len(header) >= 2 THEN header[2] ELSE Absent IN
    IF token \in {Absent, ""}
    THEN [ok |-> FALSE, email |-> Absent]
    ELSE VerifyIdToken(token)

\* What reaches the handler of a route: the guard's verdict when the route is
\* guarded, and no req.tokenEmail when it is not.
Admit(r, route, header) ==
    IF Guarded(r, route) THEN VerifyJWT(header)
    ELSE [ok |-> TRUE, email |-> Absent]

\* The headers worth sending to a route: an unguarded route never reads it.
HeadersFor(r, route) == IF Guarded(r, route) THEN Headers ELSE {<<>>}

\* A request's parameters are drawn where its handler reads them: what a
\* handler answers before it has read a parameter does not depend on it.

\* The outcome of an exception no handler catches: Express 4 sends nothing
\* (status 0 here), Express 5 answers 500.
Unhandled == {0, 500}

(* ------------------------------------------------------------------ *)
(* POST /lessons/:id/view | like | save | share                       *)
(* ------------------------------------------------------------------ *)

\* A slip: $set where $inc was meant.
IncFieldOverwrites(doc, f) == [doc EXCEPT ![f] = 1]

\* $inc: {f: 1} on one document; a field that is not there starts from 0.
IncField(doc, f) == [doc EXCEPT ![f] = IF @ = NoNum THEN 1 ELSE @ + 1]

\* updateOne({_id}, update): the matched document is replaced, none otherwise.
UpdateOne(coll, oid, doc) ==
    IF oid \in DOMAIN coll THEN [coll EXCEPT ![oid] = doc] ELSE coll

\* The counter each route increments.
CounterOf(route) ==
    CASE route = "view" -> "views"
      [] route = "like" -> "likes"
      [] route = "save" -> "saves"
      [] route = "share" -> "shares"

Increment(f) ==
    /\ Awake
    /\ HasRoute(rev, f)
    /\ \E id \in IdStrings :
         IF ~ParsesAsObjectId(id)
         THEN /\ \E st \in (IF f = "share" THEN {500} ELSE Unhandled) :
                   last' = [op |-> f, id |-> id, status |-> st]
              /\ UNCHANGED <<lessons, used>>
         ELSE /\ id \in DOMAIN lessons => used.incs < load.incs
              /\ lessons' =
                   IF id \in DOMAIN lessons
                   THEN UpdateOne(lessons, id,
                                  IncField(lessons[id], CounterOf(f)))
                   ELSE lessons
              /\ used' = IF id \in DOMAIN lessons
                         THEN [used EXCEPT !.incs = @ + 1] ELSE used
              /\ last' = [op |-> f, id |-> id, status |-> 200]
    /\ tally' = IF ParsesAsObjectIdIn(last'.id, lessons) /\ last'.status = 200
                THEN [tally EXCEPT ![last'.id].done[CounterOf(f)] = @ + 1]
                ELSE tally
    /\ prev' = lessons
    /\ UNCHANGED <<rev, contributors, nextOid, now, load, gone, asked, made>>
    /\ Noted

ViewLesson == Increment("view")
LikeLesson == Increment("like")
SaveLesson == Increment("save")
ShareLesson == Increment("share")

(* ------------------------------------------------------------------ *)
(* POST /lessons/:id/comments                                         *)
(* ------------------------------------------------------------------ *)

\* The text of a comment or reply request: none, empty, or some text.
Texts == {Absent, "", "hi"}

\* A slip: only a text that is not there is refused.
TextMissingOnlyAbsent(text) == text = Absent

\* !text
TextMissing(text) == text \in {Absent, Null, ""}

\* What the driver stores for a value: undefined is serialized as null
\* (the client is built without ignoreUndefined).
ToBson(v) == IF v = Absent THEN Null ELSE v

\* The comment the handler builds.
NewComment(oid, user, text, t) ==
    [id |-> oid, user |-> user, text |-> text, likes |-> 0, replies |-> <<>>,
     createdAt |-> t]

\* A slip: $push with $position: 0, which puts the comment first.
PushCommentFirst(doc, c) ==
    [doc EXCEPT !.hasComments = TRUE,
                !.comments = <<[c EXCEPT !.user = ToBson(@)]>> \o @]

\* $push: {comments: c} on one document.
PushComment(doc, c) ==
    [doc EXCEPT !.hasComments = TRUE,
                !.comments = Append(@, [c EXCEPT !.user = ToBson(@)])]

\* A slip: {upsert: true}, which makes a document when the filter matches none.
PushCommentUpserts(coll, id, c) ==
    IF id \in DOMAIN coll
    THEN UpdateOne(coll, id, PushComment(coll[id], c))
    ELSE InsertOne(coll, id,
             [title |-> Absent, content |-> Absent, image |-> Absent,
              author |-> Absent, authorAvatar |-> Absent,
              likes |-> NoNum, views |-> NoNum, saves |-> NoNum,
              shares |-> NoNum,
              hasComments |-> TRUE, comments |-> <<[c EXCEPT !.user = ToBson(@)]>>,
              createdAt |-> NoTime, updatedAt |-> NoTime])

\* updateOne({_id: id}, {$push: {comments: c}}): a filter that matches no
\* lesson updates nothing.
PushCommentInto(coll, id, c) ==
    IF id \in DOMAIN coll
    THEN UpdateOne(coll, id, PushComment(coll[id], c))
    ELSE coll

AddComment ==
    /\ Awake
    /\ HasRoute(rev, "addComment")
    /\ \E header \in HeadersFor(rev, "addComment") :
         LET auth == Admit(rev, "addComment", header) IN
         IF ~auth.ok
         THEN /\ \E text \in Texts :
                   last' = [op |-> "addComment", status |-> 401, header |-> header,
                            text |-> text]
              /\ UNCHANGED <<lessons, nextOid, used>>
         ELSE \E text \in Texts :
         IF TextMissing(text)
         THEN /\ last' = [op |-> "addComment", status |-> 400, header |-> header,
                          text |-> text]
              /\ UNCHANGED <<lessons, nextOid, used>>
         ELSE \E id \in IdStrings :
              LET c == NewComment(nextOid, auth.email, text, now) IN
              /\ used.comments < load.comments
              /\ nextOid' = nextOid + 1
              /\ used' = [used EXCEPT !.comments = @ + 1]
              /\ IF ~ParsesAsObjectId(id)
                 THEN /\ \E st \in Unhandled :
                           last' = [op |-> "addComment", status |-> st,
                                    header |-> header, text |-> text, id |-> id]
                      /\ UNCHANGED lessons
                 ELSE /\ lessons' = PushCommentInto(lessons, id, c)
                      /\ last' = [op |-> "addComment", status |-> 200,
                                  header |-> header, text |-> text, id |-> id,
                                  body |-> c]
    /\ asked' = IF last'.status = 200 /\ last'.id \in DOMAIN lessons
                THEN (last'.body.id :> NoneAsked) @@ asked
                ELSE asked
    /\ prev' = lessons
    /\ UNCHANGED <<rev, contributors, now, load, tally, gone, made>>
    /\ Noted

(* ------------------------------------------------------------------ *)
(* POST /lessons/:id/comments/:commentId/replies                      *)
(* ------------------------------------------------------------------ *)

\* The reply the handler builds.
NewReply(oid, user, text, t) ==
    [id |-> oid, user |-> user, text |-> text, createdAt |-> t]

\* The positional operator $: the index of the first element of comments
\* whose _id is cid, 0 when the filter "comments._id" matches none.
Position(doc, cid) ==
    LET hits == {i \in 1..Len(doc.comments) : doc.comments[i].id = cid} IN
    IF hits = {} THEN 0 ELSE CHOOSE i \in hits : \A j \in hits : i <= j

\* The filter {_id: id, "comments._id": cid} matches a document.
MatchesComment(coll, id, cid) ==
    id \in DOMAIN coll /\ Position(coll[id], cid) > 0

\* A slip: the all-positional $[] where the positional $ was meant.
PushReplyToAll(doc, i, r) ==
    [doc EXCEPT !.comments =
        [k \in 1..Len(@) |->
            [@[k] EXCEPT !.replies = Append(@, [r EXCEPT !.user = ToBson(@)])]]]

\* $push: {"comments.$.replies": r} on the matched element.
PushReply(doc, i, r) ==
    [doc EXCEPT !.comments[i].replies = Append(@, [r EXCEPT !.user = ToBson(@)])]

AddReply ==
    /\ Awake
    /\ HasRoute(rev, "addReply")
    /\ \E header \in HeadersFor(rev, "addReply") :
         LET auth == Admit(rev, "addReply", header) IN
         IF ~auth.ok
         THEN /\ \E text \in Texts :
                   last' = [op |-> "addReply", status |-> 401, header |-> header,
                            text |-> text]
              /\ UNCHANGED <<lessons, nextOid, used>>
         ELSE \E text \in Texts :
         IF TextMissing(text)
         THEN /\ last' = [op |-> "addReply", status |-> 400, header |-> header,
                          text |-> text]
              /\ UNCHANGED <<lessons, nextOid, used>>
         ELSE \E id \in IdStrings, cid \in CommentIdStrings :
              LET r == NewReply(nextOid, auth.email, text, now) IN
              /\ used.replies < load.replies
              /\ nextOid' = nextOid + 1
              /\ used' = [used EXCEPT !.replies = @ + 1]
              /\ IF ~ParsesAsObjectId(id) \/ ~ParsesAsObjectId(cid)
                 THEN /\ \E st \in Unhandled :
                           last' = [op |-> "addReply", status |-> st,
                                    header |-> header, text |-> text,
                                    id |-> id, cid |-> cid]
                      /\ UNCHANGED lessons
                 ELSE /\ lessons' =
                           IF MatchesComment(lessons, id, cid)
                           THEN UpdateOne(lessons, id,
                                    PushReply(lessons[id],
                                              Position(lessons[id], cid), r))
                           ELSE lessons
                      /\ last' = [op |-> "addReply", status |-> 200,
                                  header |-> header, text |-> text,
                                  id |-> id, cid |-> cid, body |-> r]
    /\ asked' = IF last'.status = 200 /\ Targets(lessons, last'.id, last'.cid)
                THEN [asked EXCEPT ![last'.cid].replies = @ + 1]
                ELSE asked
    /\ prev' = lessons
    /\ UNCHANGED <<rev, contributors, now, load, tally, gone, made>>
    /\ Noted

(* ------------------------------------------------------------------ *)
(* POST /lessons/:id/comments/:commentId/like                         *)
(* ------------------------------------------------------------------ *)

\* A slip: the first element, comments.0.likes, where the positional $ was meant.
IncCommentLikesAtFirst(doc, i) == [doc EXCEPT !.comments[1].likes = @ + 1]

\* $inc: {"comments.$.likes": 1} on the matched element.
IncCommentLikes(doc, i) == [doc EXCEPT !.comments[i].likes = @ + 1]

LikeComment ==
    /\ Awake
    /\ HasRoute(rev, "likeComment")
    /\ \E header \in HeadersFor(rev, "likeComment") :
         LET auth == Admit(rev, "likeComment", header) IN
         IF ~auth.ok
         THEN /\ last' = [op |-> "likeComment", status |-> 401, header |-> header]
              /\ UNCHANGED <<lessons, used>>
         ELSE \E id \in IdStrings, cid \in CommentIdStrings :
         IF ~ParsesAsObjectId(id) \/ ~ParsesAsObjectId(cid)
         THEN /\ \E st \in Unhandled :
                   last' = [op |-> "likeComment", status |-> st,
                            header |-> header, id |-> id, cid |-> cid]
              /\ UNCHANGED <<lessons, used>>
         ELSE /\ MatchesComment(lessons, id, cid) => used.likes < load.likes
              /\ lessons' =
                   IF MatchesComment(lessons, id, cid)
                   THEN UpdateOne(lessons, id,
                            IncCommentLikes(lessons[id], Position(lessons[id], cid)))
                   ELSE lessons
              /\ used' = IF MatchesComment(lessons, id, cid)
                         THEN [used EXCEPT !.likes = @ + 1] ELSE used
              /\ last' = [op |-> "likeComment", status |-> 200,
                          header |-> header, id |-> id, cid |-> cid]
    /\ asked' = IF last'.status = 200 /\ Targets(lessons, last'.id, last'.cid)
                THEN [asked EXCEPT ![last'.cid].likes = @ + 1]
                ELSE asked
    /\ prev' = lessons
    /\ UNCHANGED <<rev, contributors, nextOid, now, load, tally, gone, made>>
    /\ Noted

(* ------------------------------------------------------------------ *)
(* PUT /lessons/:id and DELETE /lessons/:id                           *)
(* ------------------------------------------------------------------ *)

\* The bodies of an update request: each of title, content and image is
\* given or left out.
PutBodies ==
    {[title |-> Absent, content |-> Absent, image |-> Absent],
     [title |-> "T", content |-> Absent, image |-> Absent],
     [title |-> Absent, content |-> "C", image |-> "I"],
     [title |-> "T", content |-> "C", image |-> "I"]}

\* $set: {title, content, image, updatedAt: new Date()} on one document.
SetFields(doc, b, t) ==
    [doc EXCEPT !.title = ToBson(b.title), !.content = ToBson(b.content),
                !.image = ToBson(b.image), !.updatedAt = t]

UpdateLesson ==
    /\ Awake
    /\ HasRoute(rev, "updateLesson")
    /\ \E id \in IdStrings, b \in PutBodies :
         IF ~ParsesAsObjectId(id)
         THEN /\ last' = [op |-> "updateLesson", status |-> 500, id |-> id,
                          body |-> b]
              /\ UNCHANGED <<lessons, used>>
         ELSE /\ id \in DOMAIN lessons => used.puts < load.puts
              /\ lessons' =
                   IF id \in DOMAIN lessons
                   THEN UpdateOne(lessons, id, SetFields(lessons[id], b, now))
                   ELSE lessons
              /\ used' = IF id \in DOMAIN lessons
                         THEN [used EXCEPT !.puts = @ + 1] ELSE used
              /\ last' = [op |-> "updateLesson", id |-> id, body |-> b,
                          status |-> IF id \in DOMAIN lessons THEN 200 ELSE 404]
    /\ prev' = lessons
    /\ UNCHANGED <<rev, contributors, nextOid, now, load, tally, gone, asked, made>>
    /\ Noted

\* deleteOne({_id}): the collection without the matched document.
DeleteOne(coll, oid) == [i \in DOMAIN coll \ {oid} |-> coll[i]]

DeleteLesson ==
    /\ Awake
    /\ HasRoute(rev, "deleteLesson")
    /\ \E id \in IdStrings :
         IF ~ParsesAsObjectId(id)
         THEN /\ last' = [op |-> "deleteLesson", status |-> 500, id |-> id]
              /\ UNCHANGED <<lessons, tally, gone, asked>>
         ELSE /\ lessons' = DeleteOne(lessons, id)
              /\ tally' = [i \in DOMAIN lessons' |-> tally[i]]
              /\ gone' = gone \cup (DOMAIN lessons \ DOMAIN lessons')
              /\ asked' = [c \in DOMAIN asked \cap CommentIds(lessons') |-> asked[c]]
              /\ last' = [op |-> "deleteLesson", id |-> id,
                          status |-> IF id \in DOMAIN lessons THEN 200 ELSE 404]
    /\ prev' = lessons
    /\ UNCHANGED <<rev, contributors, nextOid, now, load, used, made>>
    /\ Noted

(* ------------------------------------------------------------------ *)
(* GET /lessons                                                       *)
(* ------------------------------------------------------------------ *)

\* The characters of a limit query string, and the strings themselves;
\* NoQuery is what parseInt makes of a parameter that is not there.
LimitChars == {"-", "0", "2"}
MaxQueryLen == 2
NoQuery == <<"undefined">>
LimitQueries ==
    {NoQuery} \cup UNION {[1..n -> LimitChars] : n \in 0..MaxQueryLen}

IsDigit(c) == c \in {"0", "1", "2", "3", "4", "5", "6", "7", "8", "9"}
DigitValue(c) ==
    CASE c = "0" -> 0 [] c = "1" -> 1 [] c = "2" -> 2 [] c = "3" -> 3
      [] c = "4" -> 4 [] c = "5" -> 5 [] c = "6" -> 6 [] c = "7" -> 7
      [] c = "8" -> 8 [] c = "9" -> 9

\* The value of the leading digits of s after acc, and whether there are any.
RECURSIVE LeadingDigits(_, _, _)
LeadingDigits(s, acc, seen) ==
    IF s # <<>> /\ IsDigit(Head(s))
    THEN LeadingDigits(Tail(s), 10 * acc + DigitValue(Head(s)), TRUE)
    ELSE [nan |-> ~seen, val |-> acc]

\* parseInt(s): an optional sign, then the leading digits; NaN without digits.
ParseInt(s) ==
    LET neg == s # <<>> /\ Head(s) = "-"
        d == LeadingDigits(IF neg THEN Tail(s) ELSE s, 0, FALSE)
    IN  [nan |-> d.nan, val |-> IF neg THEN 0 - d.val ELSE d.val]

\* find().sort({_id: -1}): the ids of a collection, largest first.
RECURSIVE SortByIdDesc(_)
SortByIdDesc(ids) ==
    IF ids = {} THEN <<>>
    ELSE LET m == CHOOSE i \in ids : \A j \in ids : j <= i
         IN  <<m>> \o SortByIdDesc(ids \ {m})

\* cursor.limit(n).toArray(): 0 is no limit, and the driver sends a negative
\* limit as its absolute value in a single batch.
CursorLimit(seq, n) ==
    LET k == IF n < 0 THEN 0 - n ELSE n IN
    IF k = 0 \/ k >= Len(seq) THEN seq ELSE SubSeq(seq, 1, k)

\* Whether the handler calls cursor.limit with the parsed limit.
LimitApplies(r, limit) ==
    CASE r = "part_000" -> FALSE
      [] r = "part_001" -> ~limit.nan /\ limit.val # 0
      [] OTHER -> ~limit.nan

\* The ids of the documents the route sends, in order.
ListLessons(r, coll, q) ==
    LET limit == ParseInt(q)
        all == SortByIdDesc(DOMAIN coll)
    IN  IF LimitApplies(r, limit) THEN CursorLimit(all, limit.val) ELSE all

\* The documents behind a sequence of ids.
Documents(coll, ids) ==
    [k \in 1..Len(ids) |-> [id |-> ids[k], doc |-> coll[ids[k]]]]

GetLessons ==
    /\ Awake
    /\ HasRoute(rev, "getLessons")
    /\ \E q \in LimitQueries :
         last' = [op |-> "getLessons", status |-> 200, query |-> q,
                  body |-> Documents(lessons, ListLessons(rev, lessons, q))]
    /\ prev' = lessons
    /\ UNCHANGED <<rev, lessons, contributors, nextOid, now, load, used, tally, gone, asked, made>>
    /\ Noted

(* ------------------------------------------------------------------ *)
(* GET /lessons/:id                                                   *)
(* ------------------------------------------------------------------ *)

\* countDocuments({author}).
CountByAuthor(coll, author) ==
    Cardinality({i \in DOMAIN coll : coll[i].author = author})

\* The response to a well-formed id: status and body.
LessonResponse(r, coll, id) ==
    IF r = "part_002"
    THEN IF id \notin DOMAIN coll
         THEN [status |-> 404, isNull |-> FALSE, found |-> FALSE]
         ELSE LET doc == [coll[id] EXCEPT
                            !.author = OrDefault(@, "Anonymous"),
                            !.authorAvatar = OrDefault(@, "/images/default.jpg")]
              IN  [status |-> 200, isNull |-> FALSE, found |-> TRUE, doc |-> doc,
                   authorLessonCount |-> CountByAuthor(coll, doc.author),
                   authorId |-> doc.author]
    ELSE IF id \notin DOMAIN coll
         THEN [status |-> 200, isNull |-> TRUE, found |-> FALSE]
         ELSE [status |-> 200, isNull |-> FALSE, found |-> TRUE, doc |-> coll[id]]

GetLesson ==
    /\ Awake
    /\ HasRoute(rev, "getLesson")
    /\ \E id \in IdStrings :
         IF ~ParsesAsObjectId(id)
         THEN \E st \in Unhandled :
                last' = [op |-> "getLesson", id |-> id, status |-> st,
                         body |-> [isNull |-> FALSE, found |-> FALSE]]
         ELSE LET res == LessonResponse(rev, lessons, id) IN
              last' = [op |-> "getLesson", id |-> id, status |-> res.status,
                       body |-> res]
    /\ prev' = lessons
    /\ UNCHANGED <<rev, lessons, contributors, nextOid, now, load, used, tally, gone, asked, made>>
    /\ Noted

(* ------------------------------------------------------------------ *)
(* GET /lessons-worth                                                 *)
(* ------------------------------------------------------------------ *)

\* A slip: sort({saves: 1}), the fewest saves first.
RECURSIVE SortBySavesAsc(_, _, _)
SortBySavesAsc(coll, ids, k) ==
    IF ids = {} \/ k = 0 THEN {<<>>}
    ELSE LET low == {i \in ids : \A j \in ids : coll[i].saves <= coll[j].saves}
         IN  UNION {{<<i>> \o rest :
                       rest \in SortBySavesAsc(coll, ids \ {i}, k - 1)}
                    : i \in low}

\* find().sort({saves: -1}).limit(k): every sequence of the k first ids of
\* an order with saves not increasing; the store does not say how it orders
\* equal keys.
RECURSIVE SortBySavesDesc(_, _, _)
SortBySavesDesc(coll, ids, k) ==
    IF ids = {} \/ k = 0 THEN {<<>>}
    ELSE LET top == {i \in ids : \A j \in ids : coll[j].saves <= coll[i].saves}
         IN  UNION {{<<i>> \o rest :
                       rest \in SortBySavesDesc(coll, ids \ {i}, k - 1)}
                    : i \in top}

\* The author defaults the newest revision adds to each document sent.
WithAuthor(r, doc) ==
    IF r = "part_002"
    THEN [doc EXCEPT !.author = OrDefault(@, "Anonymous"),
                     !.authorAvatar = OrDefault(@, "/images/default.jpg")]
    ELSE doc

LessonsWorth ==
    /\ Awake
    /\ HasRoute(rev, "lessonsWorth")
    /\ \E ids \in SortBySavesDesc(lessons, DOMAIN lessons, TopLimit) :
         last' = [op |-> "lessonsWorth", status |-> 200,
                  body |-> [k \in 1..Len(ids) |->
                              [id |-> ids[k],
                               doc |-> WithAuthor(rev, lessons[ids[k]])]]]
    /\ prev' = lessons
    /\ UNCHANGED <<rev, lessons, contributors, nextOid, now, load, used, tally, gone, asked, made>>
    /\ Noted

(* ------------------------------------------------------------------ *)
(* The clock                                                          *)
(* ------------------------------------------------------------------ *)

Tick ==
    /\ Awake
    /\ used.ticks < load.ticks
    /\ now' = now + 1
    /\ used' = [used EXCEPT !.ticks = @ + 1]
    /\ UNCHANGED <<rev, lessons, contributors, nextOid, load, tally, gone, asked, made,
                   prev, noop, last>>

Next ==
    \/ CreateLesson
    \/ ViewLesson
    \/ LikeLesson
    \/ SaveLesson
    \/ ShareLesson
    \/ AddComment
    \/ AddReply
    \/ LikeComment
    \/ UpdateLesson
    \/ DeleteLesson
    \/ GetLessons
    \/ GetLesson
    \/ LessonsWorth
    \/ Tick

(* ------------------------------------------------------------------ *)
(* Specifications                                                     *)
(* ------------------------------------------------------------------ *)

NoLoad == [k \in Kinds |-> 0] @@ [payloads |-> {PlainPayload}, revs |-> Revs]

\* Counters: lessons are created, incremented and deleted.
CounterLoad ==
    [NoLoad EXCEPT !.lessons = MaxLessons, !.incs = MaxIncs,
                   !.payloads = {PlainPayload, LoadedPayload}]
InitCounters == InitWith(CounterLoad)
NextCounters ==
    \/ CreateLesson
    \/ ViewLesson
    \/ LikeLesson
    \/ SaveLesson
    \/ ShareLesson
    \/ DeleteLesson
SpecCounters == InitCounters /\ [][NextCounters]_vars

\* Documents: lessons are created, read and deleted.
DocLoad ==
    [NoLoad EXCEPT !.lessons = MaxLessons, !.ticks = MaxClock,
                   !.payloads = Payloads]
InitDocs == InitWith(DocLoad)
NextDocs ==
    \/ CreateLesson
    \/ GetLesson
    \/ DeleteLesson
    \/ Tick
SpecDocs == InitDocs /\ [][NextDocs]_vars

\* Updates: lessons that carry a counter and a comment are updated.
UpdateLoad ==
    [NoLoad EXCEPT !.lessons = MaxLessons, !.incs = 1, !.comments = 1,
                   !.puts = MaxPuts, !.ticks = MaxClock,
                   !.payloads = {PlainPayload, BarePayload},
                   !.revs = {"part_002"}]
InitUpdates == InitWith(UpdateLoad)
NextUpdates ==
    \/ CreateLesson
    \/ SaveLesson
    \/ AddComment
    \/ UpdateLesson
    \/ Tick
SpecUpdates == InitUpdates /\ [][NextUpdates]_vars

\* Threads: comments, replies and comment likes on the lessons.
ThreadLoad ==
    [NoLoad EXCEPT !.lessons = MaxLessons,
                   !.comments = MaxComments, !.replies = MaxReplies,
                   !.likes = MaxLikes]
InitThreads == InitWith(ThreadLoad)
NextThreads ==
    \/ CreateLesson
    \/ AddComment
    \/ AddReply
    \/ LikeComment
SpecThreads == InitThreads /\ [][NextThreads]_vars

\* Nested updates: replies and likes sent to the comments of one lesson.
NestedLoad ==
    [NoLoad EXCEPT !.lessons = 1, !.comments = MaxComments,
                   !.replies = MaxNestedReplies, !.likes = MaxNestedLikes]
InitNested == InitWith(NestedLoad)
NextNested ==
    \/ CreateLesson
    \/ AddComment
    \/ AddReply
    \/ LikeComment
SpecNested == InitNested /\ [][NextNested]_vars

\* Counters over a lesson's life: created, incremented, commented, updated.
LifeLoad ==
    [NoLoad EXCEPT !.lessons = 1, !.incs = 1, !.comments = 1, !.puts = MaxPuts,
                   !.payloads = {PlainPayload, NegativePayload}]
InitLife == InitWith(LifeLoad)
NextLife ==
    \/ CreateLesson
    \/ ViewLesson
    \/ LikeLesson
    \/ SaveLesson
    \/ ShareLesson
    \/ AddComment
    \/ UpdateLesson
SpecLife == InitLife /\ [][NextLife]_vars

\* Contributors: lessons by a few authors are created and deleted in the
\* revision that upserts a contributor with every lesson.
ContribLoad ==
    [NoLoad EXCEPT !.lessons = MaxContribLessons,
                   !.payloads = Payloads \cup {NegativePayload},
                   !.revs = {"part_002"}]
InitContrib == InitWith(ContribLoad)
NextContrib ==
    \/ CreateLesson
    \/ DeleteLesson
SpecContrib == InitContrib /\ [][NextContrib]_vars

\* Comment sequences over a lesson's life: commented, replied to, liked,
\* updated and deleted.
AppendLoad ==
    [NoLoad EXCEPT !.lessons = 1, !.comments = MaxComments,
                   !.replies = MaxNestedReplies, !.likes = MaxLikes,
                   !.puts = MaxPuts,
                   !.payloads = {PlainPayload, LoadedPayload}]
InitAppend == InitWith(AppendLoad)
NextAppend ==
    \/ CreateLesson
    \/ AddComment
    \/ AddReply
    \/ LikeComment
    \/ UpdateLesson
    \/ DeleteLesson
SpecAppend == InitAppend /\ [][NextAppend]_vars

\* Listing: GET /lessons over a store of a few lessons.
ListLoad == [NoLoad EXCEPT !.lessons = MaxListLessons]
InitList == InitWith(ListLoad)
NextList ==
    \/ CreateLesson
    \/ DeleteLesson
    \/ GetLessons
SpecList == InitList /\ [][NextList]_vars

\* Top saved: GET /lessons-worth over a store of more lessons than it sends.
WorthLoad ==
    [NoLoad EXCEPT !.lessons = MaxQueryLessons, !.incs = MaxSaves,
                   !.revs = {"index.js", "part_002"}]
InitWorth == InitWith(WorthLoad)
NextWorth ==
    \/ CreateLesson
    \/ SaveLesson
    \/ LessonsWorth
SpecWorth == InitWorth /\ [][NextWorth]_vars

\* Every kind of request, a few of each.
FullLoad ==
    [NoLoad EXCEPT !.lessons = 1, !.incs = 1, !.comments = 1, !.replies = 1,
                   !.likes = 1, !.puts = 1, !.ticks = 1]

Init == InitWith(FullLoad)

Spec == Init /\ [][Next]_vars

(* ------------------------------------------------------------------ *)
(* Claims                                                             *)
(* ------------------------------------------------------------------ *)

\* The value $inc starts from: a counter that is not there counts as 0.
StartOf(n) == IF n = NoNum THEN 0 ELSE n

\* C1: for every stored lesson and each of its counters, the stored value
\* is the value the counter had when the lesson was inserted plus the number
\* of increment requests to that counter answered since, whatever the order
\* in which the requests to the counters and lessons were applied.
C1_CounterIsStartPlusIncrements ==
    \A id \in DOMAIN lessons : \A f \in CounterFields :
        lessons[id][f] =
            IF tally[id].done[f] = 0 THEN tally[id].base[f]
            ELSE StartOf(tally[id].base[f]) + tally[id].done[f]

\* C1 witness: one counter of a stored lesson has taken two increments or more.
C1_Witness ==
    \E id \in DOMAIN lessons : \E f \in CounterFields :
        /\ tally[id].done[f] >= 2
        /\ lessons[id][f] = StartOf(tally[id].base[f]) + tally[id].done[f]

\* The request that was answered last created a lesson that is stored.
Created == last.op = "createLesson" /\ last.id \in DOMAIN lessons

\* C2 (as claimed): a lesson just created is stored with its four counters
\* at 0 and an empty comment sequence, whatever the payload carried, and a
\* read of a stored lesson by its identifier returns the stored field values.
C2_CreatedAtZeroAndReadBack ==
    /\ Created =>
          /\ \A f \in CounterFields : lessons[last.id][f] = 0
          /\ lessons[last.id].hasComments
          /\ lessons[last.id].comments = <<>>
    /\ (last.op = "getLesson" /\ ParsesAsObjectIdIn(last.id, lessons)) =>
          /\ last.status = 200
          /\ last.body.found
          /\ last.body.doc = lessons[last.id]

\* C5 (as claimed): a read by a well-formed identifier that matches no stored
\* lesson is answered 404, never 200 with a null body.
C5_MissingLessonIs404 ==
    (last.op = "getLesson" /\ ParsesAsObjectId(last.id)
       /\ last.id \notin DOMAIN lessons) =>
          /\ last.status = 404
          /\ ~last.body.isNull

\* The ids of a response body, in the order sent.
BodyIds(body) == [k \in 1..Len(body) |-> body[k].id]

\* A query string that is a positive integer: digits only, not all zero.
IsPositiveInteger(q) ==
    /\ q # <<>>
    /\ \A k \in 1..Len(q) : IsDigit(q[k])
    /\ LeadingDigits(q, 0, FALSE).val > 0

\* The smaller of two numbers.
Min(a, b) == IF a <= b THEN a ELSE b

\* C3 (as claimed): GET /lessons sends the lessons newest first; with a limit
\* that is a positive integer k it sends the first min(k, n) of them, and with
\* any other limit (none, not a number, zero, negative) it sends all n.
C3_ListNewestFirstWithLimit ==
    last.op = "getLessons" =>
        LET n == Cardinality(DOMAIN lessons)
            ids == BodyIds(last.body)
            want == IF IsPositiveInteger(last.query)
                    THEN Min(LeadingDigits(last.query, 0, FALSE).val, n)
                    ELSE n
        IN  /\ Len(ids) = want
            /\ \A k \in 1..Len(ids) : ids[k] \in DOMAIN lessons
            /\ \A k \in 1..Len(ids) : last.body[k].doc = lessons[ids[k]]
            /\ \A k \in 1..(Len(ids) - 1) : ids[k] > ids[k + 1]
            /\ \A i \in DOMAIN lessons :
                  (\A k \in 1..Len(ids) : ids[k] # i) =>
                      \A k \in 1..Len(ids) : i < ids[k]

EditableFields == {"title", "content", "image"}

\* C4 (as claimed): PUT on a stored lesson sets the fields among title,
\* content and image that the body gives and updatedAt, keeps every editable
\* field the body leaves out and everything else; PUT on an identifier that
\* matches no lesson is answered 404 and changes nothing.
C4_UpdateSetsOnlyGivenFields ==
    last.op = "updateLesson" =>
        IF last.id \in DOMAIN prev
        THEN /\ last.status = 200
             /\ DOMAIN lessons = DOMAIN prev
             /\ \A f \in EditableFields :
                   lessons[last.id][f] =
                       IF last.body[f] = Absent THEN prev[last.id][f]
                       ELSE last.body[f]
             /\ lessons[last.id].updatedAt = now
             /\ lessons[last.id] =
                   [prev[last.id] EXCEPT !.title = lessons[last.id].title,
                                         !.content = lessons[last.id].content,
                                         !.image = lessons[last.id].image,
                                         !.updatedAt = lessons[last.id].updatedAt]
             /\ \A i \in DOMAIN prev \ {last.id} : lessons[i] = prev[i]
        ELSE /\ last.status = 404
             /\ lessons = prev

\* C6 (as claimed): a comment request whose text is absent or empty is
\* answered 400 and leaves the store as it was.
C6_EmptyCommentIs400 ==
    (last.op = "addComment" /\ last.text \in {Absent, ""}) =>
        /\ last.status = 400
        /\ lessons = prev

\* Whether a header carries a token the identity provider verifies, and the
\* email it verifies to.
Verifies(header) == Len(header) >= 2 /\ header[2] \in {"tokA", "tokB"}
EmailOf(header) == IF header[2] = "tokA" THEN "a@x.io" ELSE "b@x.io"

\* C6 (amended): a comment request whose text is absent or empty is refused
\* and leaves the store as it was: with 401 when the route is behind the auth
\* guard and the token is missing or fails verification, with 400 otherwise.
C6_EmptyCommentIsRefused ==
    (last.op = "addComment" /\ last.text \in {Absent, ""}) =>
        /\ last.status =
              IF Guarded(rev, "addComment") /\ ~Verifies(last.header)
              THEN 401 ELSE 400
        /\ lessons = prev
        /\ noop

\* C6 witness: an empty text was answered 400 while a lesson holds a comment.
C6_Witness ==
    /\ last.op = "addComment"
    /\ last.status = 400
    /\ last.text = ""
    /\ \E i \in DOMAIN lessons : Len(lessons[i].comments) >= 1
    /\ lessons = prev

\* The request answered last appended a reply to a comment of a stored lesson.
Replied ==
    /\ last.op = "addReply"
    /\ last.status = 200
    /\ last.id \in DOMAIN prev
    /\ \E k \in 1..Len(prev[last.id].comments) :
          prev[last.id].comments[k].id = last.cid

\* C7: a reply appended to comment C of lesson L adds exactly one reply, the
\* one built from the request, at the end of C's replies and changes nothing
\* else: C keeps its likes, text, user and id, every sibling comment and every
\* other field of L is as before, and so is every other lesson.
C7_ReplyTouchesOnlyItsComment ==
    Replied =>
        LET old == prev[last.id]
            new == lessons[last.id]
        IN  /\ DOMAIN lessons = DOMAIN prev
            /\ \A i \in DOMAIN prev \ {last.id} : lessons[i] = prev[i]
            /\ Len(new.comments) = Len(old.comments)
            /\ new = [old EXCEPT !.comments = new.comments]
            /\ \A k \in 1..Len(old.comments) :
                  IF old.comments[k].id = last.cid
                  THEN /\ Len(new.comments[k].replies)
                            = Len(old.comments[k].replies) + 1
                       /\ new.comments[k] =
                            [old.comments[k] EXCEPT
                               !.replies = Append(@,
                                   [id |-> last.body.id,
                                    user |-> ToBson(last.body.user),
                                    text |-> last.text,
                                    createdAt |-> last.body.createdAt])]
                  ELSE new.comments[k] = old.comments[k]

\* C7 witness: a reply went to one of two comments of a lesson, the other
\* comment having been liked, while another lesson is stored.
C7_Witness ==
    /\ Replied
    /\ Len(lessons[last.id].comments) >= 2
    /\ \E k, j \in 1..Len(lessons[last.id].comments) :
          /\ lessons[last.id].comments[k].id = last.cid
          /\ Len(lessons[last.id].comments[k].replies) = 1
          /\ lessons[last.id].comments[j].id # last.cid
          /\ lessons[last.id].comments[j].likes = 1
    /\ Cardinality(DOMAIN lessons) >= 2

\* C8 (as claimed): DELETE of a stored lesson removes that lesson only;
\* DELETE with an identifier that matches no lesson is answered 404 and
\* changes nothing; a removed lesson is found by no later read.
C8_DeleteOr404 ==
    /\ last.op = "deleteLesson" =>
          IF last.id \in DOMAIN prev
          THEN /\ last.status = 200
               /\ DOMAIN lessons = DOMAIN prev \ {last.id}
               /\ \A i \in DOMAIN lessons : lessons[i] = prev[i]
          ELSE /\ last.status = 404
               /\ lessons = prev
    /\ gone \cap DOMAIN lessons = {}
    /\ (last.op = "getLesson" /\ last.id \in gone) => last.status = 404

\* The comments and replies of the store, each with the route that made it.
StoredComments ==
    UNION {{lessons[i].comments[k] : k \in 1..Len(lessons[i].comments)}
           : i \in DOMAIN lessons}
StoredReplies ==
    UNION {{c.replies[k] : k \in 1..Len(c.replies)} : c \in StoredComments}

\* C9: on a route behind the auth guard a request whose token is missing or
\* fails verification is answered 401 without the handler running (nothing
\* is stored, no ObjectId is made); a request the guard admits reaches the
\* handler with the verified email, so that the comment or reply it stores
\* has that email as its user, and so has every stored comment or reply that
\* a guarded route made.
C9_GuardBeforeHandler ==
    /\ (last.op \in {"addComment", "addReply", "likeComment"}
          /\ Guarded(rev, last.op)) =>
          IF Verifies(last.header)
          THEN /\ last.status # 401
               /\ (last.status = 200 /\ last.op # "likeComment") =>
                     last.body.user = EmailOf(last.header)
          ELSE /\ last.status = 401
               /\ lessons = prev
               /\ noop
    /\ Guarded(rev, "addComment") =>
          \A c \in StoredComments : c.user \in {"a@x.io", "b@x.io"}
    /\ Guarded(rev, "addReply") =>
          \A r \in StoredReplies : r.user \in {"a@x.io", "b@x.io"}
    /\ (last.op = "addReply" /\ Guarded(rev, "addReply") /\ Replied) =>
          \E c \in StoredComments : \E k \in 1..Len(c.replies) :
              /\ c.replies[k].id = last.body.id
              /\ c.replies[k].user = EmailOf(last.header)

\* C9 witness: a guarded reply route stored a reply under the second email,
\* after which a request without a token was answered 401.
C9_Witness ==
    /\ Guarded(rev, "addReply")
    /\ \E r \in StoredReplies : r.user = "b@x.io"
    /\ last.op = "addReply"
    /\ last.status = 401
    /\ ~Verifies(last.header)

\* C10: GET /lessons-worth sends min(5, n) different stored lessons, in an
\* order in which saves never increases, and no lesson it leaves out has more
\* saves than one it sends.
C10_TopSaved ==
    last.op = "lessonsWorth" =>
        LET ids == BodyIds(last.body) IN
        /\ Len(ids) = Min(TopLimit, Cardinality(DOMAIN lessons))
        /\ \A k \in 1..Len(ids) :
              /\ ids[k] \in DOMAIN lessons
              /\ last.body[k].doc.saves = lessons[ids[k]].saves
        /\ \A j, k \in 1..Len(ids) : j # k => ids[j] # ids[k]
        /\ \A k \in 1..(Len(ids) - 1) :
              last.body[k].doc.saves >= last.body[k + 1].doc.saves
        /\ \A i \in DOMAIN lessons :
              (\A k \in 1..Len(ids) : ids[k] # i) =>
                  \A k \in 1..Len(ids) : lessons[i].saves <= lessons[ids[k]].saves

\* C10 witness: more lessons are stored than are sent, and the lessons sent
\* do not all have the same saves.
C10_Witness ==
    /\ last.op = "lessonsWorth"
    /\ Cardinality(DOMAIN lessons) > TopLimit
    /\ Len(last.body) = TopLimit
    /\ last.body[1].doc.saves > last.body[TopLimit].doc.saves
    /\ last.body[1].doc.saves > last.body[2].doc.saves

\* C11: no reply and no like sent to a comment is lost, in whatever order the
\* requests to the comments of a lesson are applied: every stored comment
\* holds as many replies as reply requests answered 200 have named it, and
\* its likes count the like requests answered 200 that named it.
C11_NoLostNestedUpdate ==
    \A i \in DOMAIN lessons : \A k \in 1..Len(lessons[i].comments) :
        LET c == lessons[i].comments[k] IN
        c.id \in DOMAIN asked =>
            /\ Len(c.replies) = asked[c.id].replies
            /\ c.likes = asked[c.id].likes

\* C11 witness: two comments of one lesson have each taken a reply and a
\* like, the second comment having been replied to before the first.
C11_Witness ==
    \E i \in DOMAIN lessons :
        /\ Len(lessons[i].comments) = 2
        /\ \A k \in 1..2 :
              /\ Len(lessons[i].comments[k].replies) = 1
              /\ lessons[i].comments[k].likes = 1
              /\ asked[lessons[i].comments[k].id] = [replies |-> 1, likes |-> 1]
        /\ lessons[i].comments[1].id # lessons[i].comments[2].id
        /\ lessons[i].comments[1].replies[1].id
              > lessons[i].comments[2].replies[1].id

\* Across the last request no counter of a lesson stored before and after it
\* went down or up by more than 1 (a counter that is not there counts as 0).
CountersStepByOne ==
    \A id \in DOMAIN lessons \cap DOMAIN prev : \A f \in CounterFields :
        StartOf(lessons[id][f]) - StartOf(prev[id][f]) \in {0, 1}

\* C12 (as claimed): every counter of every stored lesson is a non-negative
\* integer, and across a request a counter of a stored lesson stays as it is
\* or goes up by exactly 1.
C12_CountersNonNegativeMonotone ==
    /\ \A id \in DOMAIN lessons : \A f \in CounterFields :
          StartOf(lessons[id][f]) >= 0
    /\ CountersStepByOne

\* The contributor name an author stands for: no author is "Anonymous".
NameOf(author) == IF author \in {Absent, Null, ""} THEN "Anonymous" ELSE author

\* The lessons created with the authors of a set, summed.
RECURSIVE CreatedBy(_)
CreatedBy(authors) ==
    IF authors = {} THEN 0
    ELSE LET a == CHOOSE x \in authors : TRUE
         IN  made[a] + CreatedBy(authors \ {a})

\* C13: in the revision that upserts a contributor with every lesson, after
\* lessons were created from an empty store the contributors collection
\* holds, for every author name used (no author counting as "Anonymous"),
\* exactly one document of that name, whose lessons is the number of lessons
\* created with that author, and no other document.
C13_OneContributorPerAuthor ==
    rev = "part_002" =>
        LET names == {NameOf(a) : a \in DOMAIN made} IN
        /\ Len(contributors) = Cardinality(names)
        /\ \A n \in names :
              LET docs == {k \in 1..Len(contributors) : contributors[k].name = n}
              IN  /\ Cardinality(docs) = 1
                  /\ \A k \in docs :
                        contributors[k].lessons =
                            CreatedBy({a \in DOMAIN made : NameOf(a) = n})

\* C13 witness: two lessons were created with one author and one without an
\* author, and one of them has been deleted since.
C13_Witness ==
    /\ rev = "part_002"
    /\ Len(contributors) = 2
    /\ \E j, k \in 1..Len(contributors) :
          /\ contributors[j].name = "Ann" /\ contributors[j].lessons = 2
          /\ contributors[k].name = "Anonymous" /\ contributors[k].lessons = 1
    /\ made["Ann"] = 2
    /\ made[Absent] = 1
    /\ gone # {}

\* The request answered last was a comment with a text, and the identifier it
\* came with (whatever it was, when the handler never read it) matched no
\* lesson.
CommentedNowhere ==
    /\ last.op = "addComment"
    /\ last.text \notin {Absent, ""}
    /\ "id" \in DOMAIN last => last.id \notin DOMAIN prev

\* The comment a request with this text and header is answered with.
WouldBeComment(body) ==
    /\ body.text = last.text
    /\ body.likes = 0
    /\ body.replies = <<>>
    /\ body.createdAt <= now
    /\ body.id = nextOid - 1
    /\ body.id \notin CommentIds(lessons)
    /\ body.user = IF Guarded(rev, "addComment") THEN EmailOf(last.header)
                   ELSE Absent

\* C14 (as claimed): a comment with a text for an identifier that matches no
\* lesson leaves the store as it was and is answered with the comment that
\* would have been stored, as a success.
C14_MissingLessonGetsComment ==
    CommentedNowhere =>
        /\ last.status = 200
        /\ WouldBeComment(last.body)
        /\ lessons = prev

\* C14 (amended): a comment with a text for an identifier that matches no
\* lesson leaves the store as it was; it is answered 401 by the auth guard
\* when the route is guarded and the token is missing or fails verification;
\* otherwise with the would-be comment as a success when the identifier is a
\* well-formed ObjectId, and with no response or 500 (the exception of
\* new ObjectId is not caught) when it is not.
C14_MissingLessonGetsCommentIfWellFormed ==
    CommentedNowhere =>
        /\ lessons = prev
        /\ IF Guarded(rev, "addComment") /\ ~Verifies(last.header)
           THEN last.status = 401
           ELSE /\ "id" \in DOMAIN last
                /\ IF ParsesAsObjectId(last.id)
                   THEN last.status = 200 /\ WouldBeComment(last.body)
                   ELSE last.status \in Unhandled

\* C14 witness: with a lesson stored, a comment for a well-formed identifier
\* that matches no lesson was answered 200 with the comment.
C14_Witness ==
    /\ CommentedNowhere
    /\ last.status = 200
    /\ ParsesAsObjectId(last.id)
    /\ WouldBeComment(last.body)
    /\ lessons # <<>>
    /\ lessons = prev

\* One sequence starts with the other.
IsPrefix(old, new) ==
    /\ Len(old) <= Len(new)
    /\ \A k \in 1..Len(old) : new[k] = old[k]

\* The request answered last stored a comment in a lesson.
Commented ==
    /\ last.op = "addComment"
    /\ last.status = 200
    /\ last.id \in DOMAIN prev

\* C15: a comment request answered 200 for a stored lesson leaves the
\* lesson's comments as they were, followed by one new comment that has the
\* text sent, an identifier no comment of the lesson had, no like and no
\* reply, and is the comment sent back; and across every request, in a lesson
\* stored before and after it, every comment keeps its place, its identifier
\* and its text, and every reply its place in its comment.
C15_CommentsAppendOnly ==
    /\ Commented =>
          LET old == prev[last.id].comments
              new == lessons[last.id].comments
          IN  /\ Len(new) = Len(old) + 1
              /\ IsPrefix(old, new)
              /\ new[Len(new)] = [last.body EXCEPT !.user = ToBson(@)]
              /\ \A k \in 1..Len(old) : old[k].id # last.body.id
              /\ last.body.text = last.text
              /\ last.body.likes = 0
              /\ last.body.replies = <<>>
    /\ \A id \in DOMAIN lessons \cap DOMAIN prev :
          LET old == prev[id].comments
              new == lessons[id].comments
          IN  /\ Len(old) <= Len(new)
              /\ \A k \in 1..Len(old) :
                    /\ new[k].id = old[k].id
                    /\ new[k].text = old[k].text
                    /\ IsPrefix(old[k].replies, new[k].replies)

\* C15 witness: a second comment was appended to a lesson whose first
\* comment had been replied to and which had been updated.
C15_Witness ==
    /\ Commented
    /\ Len(prev[last.id].comments) >= 1
    /\ \E k \in 1..Len(prev[last.id].comments) :
          Len(prev[last.id].comments[k].replies) >= 1
    /\ prev[last.id].updatedAt # NoTime
    /\ Len(lessons[last.id].comments) = Len(prev[last.id].comments) + 1

====
